---- MODULE Spec2Model ----
(***************************************************************************)
(* The voice conversation page (SpeechConversation, src/unnamed/part_002)  *)
(* as a state machine: the component's React state and refs, the browser's *)
(* speech recognition engine and speech synthesizer it drives, the pending *)
(* microphone acquisitions and the backend calls in flight.                *)
(*                                                                         *)
(* Text is a sequence of tokens (words and the blank " "); '' is <<>>.     *)
(* A state setter is modelled by the update it requests, applied with the  *)
(* handler that requests it; a handler runs to its next await as one step. *)
(* navigate() is recorded in route: the page's controls take input only    *)
(* while it is the route, but the callbacks registered with the engines    *)
(* and the continuations of pending awaits still run afterwards.           *)
(* The recognition engine refuses start() (it throws) from start() until   *)
(* its end notification; its error notification is followed by its end.    *)
(*                                                                         *)
(* The WebRTC voice call (VoiceChat, src/frontend/src/components/          *)
(* VoiceChat.tsx) is a second state machine on variables of its own,       *)
(* specified by SpecVoice; each of the two leaves the other's variables    *)
(* as constructed.                                                         *)
(***************************************************************************)
EXTENDS Naturals, Sequences, FiniteSets

\* ---------------------------------------------------------------- bounds
\* Recognition results delivered over one run of the model.
MaxResults == 2
\* getUserMedia calls of toggleListening awaiting their outcome at once.
MaxPending == 1
\* setupWebRTC calls over one run of the model.
MaxOpens == 2
\* ICE candidates the peer connections discover over one run.
MaxCandidates == 1
\* Data channel messages received over one run.
MaxMessages == 1

\* ------------------------------------------------------------ vocabulary
Blank == " "

\* Transcripts the recognition engine reports as final results.
Transcripts == { <<"show">>, <<Blank, "contributors">>, <<Blank>> }

\* Transcripts it reports as interim results.
InterimTranscripts == { <<"sho">> }

\* Reply texts of the message endpoint (data.text).
Replies == { <<"Here", Blank, "are", Blank, "the", Blank, "issues">> }

\* errorData.message of a non-OK message response; <<>> when it has none.
ErrorBodies == { <<"Invalid", Blank, "repository">>, <<"Internal", Blank, "error">>, <<>> }

FailedToProcess == <<"Failed", Blank, "to", Blank, "process", Blank, "message">>

FailedToFetch == <<"Failed", Blank, "to", Blank, "fetch">>

FallbackText == <<"I'm having trouble processing your request right now. Please try again.">>

NoError == "null"

ErrNoConversation == "No active conversation. Please try again."

ErrProcessing == "Sorry, there was an error processing your request. Please try again."

ErrStart == "Failed to start conversation. Please check your repository settings."

NoId == "null"

\* data.id of a successful start-conversation response.
ConversationIds == { "conv-1" }

VARIABLES
    messages,            \* useState<Message[]>: the Turn history
    isListening,         \* useState
    isSpeaking,          \* useState
    speechRecognition,   \* useState: TRUE when the recognition object exists
    interimTranscript,   \* useState
    finalTranscript,     \* useState
    finalTranscriptRef,  \* useRef
    error,               \* useState<string | null>
    conversationIdRef,   \* useRef<string | null>: the Session identifier
    isInitializedRef,    \* useRef
    isLoading,           \* useState
    resetDialogOpen,     \* useState
    isValid,             \* useState
    route,               \* where navigate() last led: "speech" or "auth"
    repoConfig,          \* localStorage holds 'repoConfig'
    recog,               \* recognition engine: "idle", "running", "stopping", "failed"
    sessionFinals,       \* final transcripts the engine delivered since its last start
    sessionInterim,      \* latest interim result since its last start, <<>> = none yet
    nResults,            \* results delivered so far
    micPending,          \* pending getUserMedia calls, by the isSpeaking their closure holds
    utterance,           \* synthesizer's current utterance: "none", "pending", "speaking"
    cancelled,           \* cancelled utterances whose error notification is still due
    spoken,              \* texts handed to speechSynthesis.speak, in order
    startCall,           \* start-conversation request: "none", "pending", "done"
    requests             \* message requests in flight

compVars ==
    << messages, isListening, isSpeaking, speechRecognition, interimTranscript,
       finalTranscript, finalTranscriptRef, error, conversationIdRef,
       isInitializedRef, isLoading, resetDialogOpen, isValid >>

envVars ==
    << route, repoConfig, recog, sessionFinals, sessionInterim, nResults,
       micPending, utterance, cancelled, spoken, startCall, requests >>

\* ------------------------------------------- the voice call (VoiceChat)
\* Voices offered by the voice selector (two of the component's five).
Voices == { "Puck", "Charon" }

VARIABLES
    apiKey,              \* props.apiKey is a non-empty string
    rtcConfig,           \* useState: "null", "valid", or "invalid" (RTCPeerConnection rejects it)
    rtcConfigCall,       \* fetchRTCConfig: "pending" or "done"
    isRecording,         \* useState
    isMuted,             \* useState
    selectedVoice,       \* useState
    vcError,             \* useState error of VoiceChat
    vcIsLoading,         \* useState isLoading of VoiceChat
    isConnected,         \* useState
    vcIsListening,       \* useState isListening of VoiceChat
    peerConnectionRef,   \* useRef: "null", or "open" for a peer connection not closed
    connectionState,     \* connectionState of the peer connection last created
    reportedState,       \* state last logged by handleConnectionStateChange for it
    stream,              \* tracks of the MediaStream last acquired: "none", "live", "stopped"
    attached,            \* those tracks are senders of the peer connection
    strayStreams,        \* live streams of earlier opens, referred to by nothing
    strayPeers,          \* open peer connections the ref no longer refers to
    audioContextRef,     \* useRef: "null" or "open"
    sourceInputRef,      \* useRef: "null" or "node"
    sourceOutputRef,     \* useRef: "null" or "node"
    webrtcIdRef,         \* useRef: 0 for '', else the number of the open() that drew it
    handlerVoice,        \* selectedVoice in the closure of the handlers setupWebRTC installed
    phase,               \* await setupWebRTC is suspended at, "idle" when it is not running
    nOpens,              \* setupWebRTC calls so far
    nCandidates,         \* ICE candidates the peer connections discovered so far
    iceRequests,         \* candidate posts of handleIceCandidate in flight
    iceDelivered,        \* candidates whose post reached the signaling endpoint
    nChannelMessages,      \* data channel messages received so far
    inputRequests,       \* input_hook requests in flight
    mounted,             \* the component is mounted
    closedDuring         \* position of setupWebRTC when the unmount cleanup ran, or "none"

voiceVars ==
    << apiKey, rtcConfig, rtcConfigCall, isRecording, isMuted, selectedVoice,
       vcError, vcIsLoading, isConnected, vcIsListening, peerConnectionRef,
       connectionState, reportedState, stream, attached, strayStreams, strayPeers, audioContextRef,
       sourceInputRef, sourceOutputRef, webrtcIdRef, handlerVoice, phase,
       nOpens, nCandidates, iceRequests, iceDelivered, nChannelMessages,
       inputRequests, mounted, closedDuring >>

\* ------------------------------ voice settings, voices, protected route
VARIABLES
    settingsOpen,        \* useState: the settings panel is unfolded
    voiceSettings,       \* useState<VoiceSettings>, each value in tenths
    platformVoices,      \* what speechSynthesis.getVoices() returns
    availableVoices,     \* useState<SpeechSynthesisVoice[]>
    selectedVoiceRef,    \* useRef: name of the selected voice, or "null"
    selectedVoiceName,   \* useState<string>
    utteranceParams,     \* voice, rate, pitch, volume of the utterance last handed to speak
    protectedView        \* what ProtectedRoute rendered last: "children" or "navigate"

pageVars ==
    << settingsOpen, voiceSettings, platformVoices, availableVoices,
       selectedVoiceRef, selectedVoiceName >>

vars == << compVars, envVars, pageVars, utteranceParams, protectedView, voiceVars >>


\* ------------------------------------------------------- pure functions
RECURSIVE TrimStart(_)
TrimStart(s) ==
    IF s # <<>> /\ Head(s) = Blank THEN TrimStart(Tail(s)) ELSE s

RECURSIVE TrimEnd(_)
TrimEnd(s) ==
    IF s # <<>> /\ s[Len(s)] = Blank THEN TrimEnd(SubSeq(s, 1, Len(s) - 1)) ELSE s

\* Mutant of Trim: the text is passed on as it is.
Trim_Untrimmed(s) ==
    s

\* String.prototype.trim
Trim(s) ==
    TrimEnd(TrimStart(s))

\* String.prototype.includes, on tokens
Includes(s, word) ==
    \E i \in 1..Len(s) : s[i] = word

\* The updater of setFinalTranscript: prev ? `${prev} ${transcript}` : transcript
AppendFinal(prev, transcript) ==
    IF prev # <<>> THEN prev \o <<Blank>> \o transcript ELSE transcript

\* The for loop of recognition.onresult over event.results[resultIndex..];
\* st holds finalTranscript, finalTranscriptRef and interimTranscript.
RECURSIVE ResultLoop(_, _)
ResultLoop(batch, st) ==
    IF batch = <<>>
    THEN st
    ELSE LET r == Head(batch)
             next == IF r.isFinal
                     THEN [st EXCEPT !.final = AppendFinal(st.final, r.transcript),
                                     !.ref = AppendFinal(st.final, r.transcript)]
                     ELSE [st EXCEPT !.interim = r.transcript]
         IN  ResultLoop(Tail(batch), next)

\* message of the Error thrown for a non-OK response
ThrownMessage(body) ==
    IF body # <<>> THEN body ELSE FailedToProcess

\* Mutant of IsRepositoryError: every failure counts as a repository error.
IsRepositoryError_Always(message) ==
    message = message

\* error.message.includes('repository')
IsRepositoryError(message) ==
    Includes(message, "repository")

UserTurn(text) ==
    [text |-> text, type |-> "user"]

SystemTurn(text) ==
    [text |-> text, type |-> "system"]

\* Mutant of AppendTurn: the new Turn is put first.
AppendTurn_Prepend(prev, turn) ==
    <<turn>> \o prev

\* setMessages(prev => [...prev, turn])
AppendTurn(prev, turn) ==
    Append(prev, turn)

\* ------------------------------------------------------ environment sets
Results ==
    [transcript : Transcripts, isFinal : {TRUE}]
        \cup [transcript : InterimTranscripts, isFinal : {FALSE}]

\* What one recognition event carries in event.results from resultIndex on:
\* one result, or two.
Batches ==
    { <<r>> : r \in Results } \cup { <<r1, r2>> : r1, r2 \in Results }

RECURSIVE FinalsOf(_)
FinalsOf(batch) ==
    IF batch = <<>>
    THEN <<>>
    ELSE (IF Head(batch).isFinal THEN <<Head(batch).transcript>> ELSE <<>>)
         \o FinalsOf(Tail(batch))

RECURSIVE LastInterimOf(_, _)
LastInterimOf(batch, before) ==
    IF batch = <<>>
    THEN before
    ELSE LastInterimOf(Tail(batch),
                       IF Head(batch).isFinal THEN before ELSE Head(batch).transcript)

PendingCount ==
    micPending[TRUE] + micPending[FALSE]

\* The page shows its controls: it is the current route and passed validation.
Rendered ==
    route = "speech" /\ isValid

\* The mic button is enabled (disabled={isSpeaking}).
MicEnabled ==
    Rendered /\ ~isSpeaking

\* An utterance is with the synthesizer, from speak to its end or error.
PlaybackActive ==
    utterance # "none"

\* ------------------------------------------ voices and voice settings
\* rate, pitch and volume of the first render, in tenths.
InitialVoiceSettings ==
    [ rate |-> 10, pitch |-> 10, volume |-> 10 ]

\* Values the Speed and Pitch sliders are moved to, in tenths.
SliderValues == { 10, 15 }

\* speakText is only called by handleUserInput, and handleUserInput only
\* by the onend handler that the mount effect (dependencies []) created:
\* both are the functions of the first render, whose voiceSettings is the
\* initial state.
ClosureVoiceSettings ==
    InitialVoiceSettings

\* No utterance was handed to speak yet.
NoUtterance ==
    [ voice |-> "null", rate |-> 0, pitch |-> 0, volume |-> 0 ]

\* A platform voice: its name, its lang split at '-', and which of the
\* substrings loadVoices looks for its lower-cased name includes.
Voice(name, lang, tags) ==
    [ name |-> name, lang |-> lang, tags |-> tags ]

WavenetA == Voice("en-US-Wavenet-A", <<"en", "US">>, {"wavenet"})

AriaNeural == Voice("Microsoft Aria Online (Natural) Neural", <<"en", "US">>, {"neural"})

Samantha == Voice("Samantha", <<"en", "US">>, {"samantha"})

Daniel == Voice("Daniel", <<"en", "GB">>, {"daniel"})

AvaEnhanced == Voice("Ava (Enhanced)", <<"en", "US">>, {"enhanced"})

AmeliePremium == Voice("Amelie (Premium)", <<"fr", "FR">>, {"premium"})

Fred == Voice("Fred", <<"en", "US">>, {})

\* Voice lists the platform reports with a voiceschanged event.
PlatformVoiceLists ==
    { << Fred, Samantha, AriaNeural, AmeliePremium, Daniel, WavenetA, AvaEnhanced >>,
      << Fred, Daniel, AmeliePremium >> }

\* voice.lang.startsWith('en')
IsEnglish(voice) ==
    voice.lang[1] = "en"

\* The filter of loadVoices.
IsPreferred(voice) ==
    /\ IsEnglish(voice)
    /\ voice.tags \cap {"wavenet", "neural", "samantha", "daniel", "enhanced", "premium"} # {}

\* The order of the comparator of loadVoices: WaveNet voices first, then,
\* among voices alike in that, Neural voices first.
QualityRank(voice) ==
    (IF "wavenet" \in voice.tags THEN 0 ELSE 2) + (IF "neural" \in voice.tags THEN 0 ELSE 1)

\* Array.prototype.sort with that comparator: a stable sort by the rank.
SortByQuality(voices) ==
    SelectSeq(voices, LAMBDA v : QualityRank(v) = 0) \o
    SelectSeq(voices, LAMBDA v : QualityRank(v) = 1) \o
    SelectSeq(voices, LAMBDA v : QualityRank(v) = 2) \o
    SelectSeq(voices, LAMBDA v : QualityRank(v) = 3)

\* slice(0, 4) takes this many voices.
TopCount == 4

\* topVoices of loadVoices
TopVoices(voices) ==
    LET sorted == SortByQuality(SelectSeq(voices, IsPreferred))
    IN  SubSeq(sorted, 1, IF Len(sorted) < TopCount THEN Len(sorted) ELSE TopCount)

\* voices.find(voice => voice.lang.startsWith('en')) of speakText, by name.
DefaultVoice(voices) ==
    LET english == SelectSeq(voices, IsEnglish)
    IN  IF english = <<>> THEN "null" ELSE english[1].name

\* voices.find(voice => voice.name === voiceName) of handleVoiceChange
HasVoice(voices, voiceName) ==
    \E i \in 1..Len(voices) : voices[i].name = voiceName

\* Mutant of ProtectedRoute: the children are rendered in any case.
ProtectedRoute_Open(config) ==
    "children"

\* ProtectedRoute, given what localStorage holds under 'repoConfig'.
ProtectedRoute(config) ==
    IF config = "absent" THEN "navigate" ELSE "children"

\* The page after the application rendered its routes, after the page's
\* first render and mount effects, before the platform has reported any
\* voice.
PageMounted ==
    /\ settingsOpen = FALSE
    /\ voiceSettings = InitialVoiceSettings
    /\ platformVoices = <<>>
    /\ availableVoices = TopVoices(<<>>)
    /\ selectedVoiceRef = "null"
    /\ selectedVoiceName = ""
    /\ utteranceParams = NoUtterance
    /\ protectedView = ProtectedRoute(repoConfig)

\* ------------------------------------------------------------------ Init
\* VoiceChat after its first render and mount effect: fetchRTCConfig has
\* set isLoading and awaits the configuration.
VoiceChatMounted(key) ==
    /\ apiKey = key
    /\ rtcConfig = "null"
    /\ rtcConfigCall = "pending"
    /\ isRecording = FALSE
    /\ isMuted = FALSE
    /\ selectedVoice = "Puck"
    /\ vcError = NoError
    /\ vcIsLoading = TRUE
    /\ isConnected = FALSE
    /\ vcIsListening = FALSE
    /\ peerConnectionRef = "null"
    /\ connectionState = "none"
    /\ reportedState = "none"
    /\ stream = "none"
    /\ attached = FALSE
    /\ strayStreams = 0
    /\ strayPeers = 0
    /\ audioContextRef = "null"
    /\ sourceInputRef = "null"
    /\ sourceOutputRef = "null"
    /\ webrtcIdRef = 0
    /\ handlerVoice = "Puck"
    /\ phase = "idle"
    /\ nOpens = 0
    /\ nCandidates = 0
    /\ iceRequests = {}
    /\ iceDelivered = {}
    /\ nChannelMessages = 0
    /\ inputRequests = {}
    /\ mounted = TRUE
    /\ closedDuring = "none"

Init ==
    /\ repoConfig \in {"absent", "partial", "complete"}
    /\ speechRecognition \in BOOLEAN
    /\ messages = <<>>
    /\ isListening = FALSE
    /\ isSpeaking = FALSE
    /\ interimTranscript = <<>>
    /\ finalTranscript = <<>>
    /\ finalTranscriptRef = <<>>
    /\ error = NoError
    /\ conversationIdRef = NoId
    /\ isInitializedRef = TRUE
    /\ isLoading = FALSE
    /\ resetDialogOpen = FALSE
    /\ isValid = (repoConfig = "complete")
    /\ route = IF repoConfig = "complete" THEN "speech" ELSE "auth"
    /\ recog = "idle"
    /\ sessionFinals = <<>>
    /\ sessionInterim = <<>>
    /\ nResults = 0
    /\ micPending = [c \in BOOLEAN |-> 0]
    /\ utterance = "none"
    /\ cancelled = 0
    /\ spoken = <<>>
    /\ startCall = IF repoConfig = "absent" THEN "none" ELSE "pending"
    /\ requests = {}
    /\ PageMounted
    /\ VoiceChatMounted(TRUE)


\* ------------------------------------------------------------- handlers
\* speakText: cancel whatever the synthesizer holds, then speak the new utterance.
\* A cancelled utterance still gets its error notification later.
\* Mutant of SpeakText: speak() without the cancel() before it, so that an
\* utterance still playing is not cancelled.
SpeakText_Queues(text) ==
    /\ cancelled' = cancelled
    /\ utterance' = "pending"
    /\ spoken' = Append(spoken, text)
    /\ utteranceParams' =
           [ voice  |-> IF selectedVoiceRef # "null" THEN selectedVoiceRef
                        ELSE DefaultVoice(platformVoices),
             rate   |-> ClosureVoiceSettings.rate,
             pitch  |-> ClosureVoiceSettings.pitch,
             volume |-> ClosureVoiceSettings.volume ]

\* The voice is read from selectedVoiceRef when speakText runs; rate, pitch
\* and volume are the voiceSettings of the closure speakText is called in.
SpeakText(text) ==
    /\ cancelled' = IF utterance # "none" THEN cancelled + 1 ELSE cancelled
    /\ utterance' = "pending"
    /\ spoken' = Append(spoken, text)
    /\ utteranceParams' =
           [ voice  |-> IF selectedVoiceRef # "null" THEN selectedVoiceRef
                        ELSE DefaultVoice(platformVoices),
             rate   |-> ClosureVoiceSettings.rate,
             pitch  |-> ClosureVoiceSettings.pitch,
             volume |-> ClosureVoiceSettings.volume ]

\* Mutant of HandleReset: the Session identifier is kept.
HandleReset_KeepsSession ==
    /\ conversationIdRef' = conversationIdRef
    /\ resetDialogOpen' = FALSE
    /\ route' = "auth"

\* handleReset
HandleReset ==
    /\ conversationIdRef' = NoId
    /\ resetDialogOpen' = FALSE
    /\ route' = "auth"

\* handleUserInput(text), up to its await of fetch (or its early return).
\* It decides messages, route, error, isLoading and requests.
HandleUserInput(text) ==
    IF Trim(text) = <<>>
    THEN UNCHANGED << messages, route, error, isLoading, requests >>
    ELSE /\ messages' = AppendTurn(messages, UserTurn(text))
         /\ IF repoConfig = "absent"
            THEN /\ route' = "auth"
                 /\ UNCHANGED << error, isLoading, requests >>
            ELSE IF conversationIdRef = NoId
            THEN /\ error' = ErrNoConversation
                 /\ UNCHANGED << route, isLoading, requests >>
            ELSE /\ error' = NoError
                 /\ isLoading' = TRUE
                 /\ requests' = requests \cup
                        { [turn |-> Len(messages) + 1, text |-> text,
                           conv |-> conversationIdRef] }
                 /\ UNCHANGED route

\* ------------------------------------------------- microphone button
\* toggleListening, isListening branch: stop() asks the engine to end.
ToggleListeningStop ==
    /\ MicEnabled
    /\ isListening
    /\ IF speechRecognition
       THEN /\ recog' = IF recog = "running" THEN "stopping" ELSE recog
            /\ isListening' = FALSE
       ELSE UNCHANGED << recog, isListening >>
    /\ UNCHANGED << messages, isSpeaking, speechRecognition, interimTranscript,
                    finalTranscript, finalTranscriptRef, error, conversationIdRef,
                    isInitializedRef, isLoading, resetDialogOpen, isValid,
                    route, repoConfig, sessionFinals, sessionInterim, nResults,
                    micPending, utterance, cancelled, spoken, startCall, requests >>
    /\ UNCHANGED << pageVars, utteranceParams, protectedView, voiceVars >>

\* toggleListening, start branch up to the await of getUserMedia. The
\* continuation keeps the isSpeaking of the render the click came from.
ToggleListeningStart ==
    /\ MicEnabled
    /\ ~isListening
    /\ PendingCount < MaxPending
    /\ micPending' = [micPending EXCEPT ![isSpeaking] = @ + 1]
    /\ UNCHANGED << compVars, route, repoConfig, recog, sessionFinals,
                    sessionInterim, nResults, utterance, cancelled, spoken,
                    startCall, requests >>
    /\ UNCHANGED << pageVars, utteranceParams, protectedView, voiceVars >>

\* toggleListening after getUserMedia resolved. start() throws while the
\* engine has not ended its previous session; the catch only alerts.
MicrophoneGranted(captured) ==
    /\ micPending[captured] > 0
    /\ micPending' = [micPending EXCEPT ![captured] = @ - 1]
    /\ IF speechRecognition /\ ~captured
       THEN /\ finalTranscript' = <<>>
            /\ interimTranscript' = <<>>
            /\ IF recog = "idle"
               THEN /\ recog' = "running"
                    /\ sessionFinals' = <<>>
                    /\ sessionInterim' = <<>>
                    /\ isListening' = TRUE
               ELSE UNCHANGED << recog, sessionFinals, sessionInterim, isListening >>
       ELSE UNCHANGED << finalTranscript, interimTranscript, recog, sessionFinals,
                         sessionInterim, isListening >>
    /\ UNCHANGED << messages, isSpeaking, speechRecognition, finalTranscriptRef,
                    error, conversationIdRef, isInitializedRef, isLoading,
                    resetDialogOpen, isValid, route, repoConfig, nResults,
                    utterance, cancelled, spoken, startCall, requests >>
    /\ UNCHANGED << pageVars, utteranceParams, protectedView, voiceVars >>

\* toggleListening after getUserMedia rejected: the catch only alerts.
MicrophoneDenied(captured) ==
    /\ micPending[captured] > 0
    /\ micPending' = [micPending EXCEPT ![captured] = @ - 1]
    /\ UNCHANGED << compVars, route, repoConfig, recog, sessionFinals,
                    sessionInterim, nResults, utterance, cancelled, spoken,
                    startCall, requests >>
    /\ UNCHANGED << pageVars, utteranceParams, protectedView, voiceVars >>

\* ------------------------------------------------ recognition engine
\* recognition.onresult
RecognitionResult(batch) ==
    /\ recog \in {"running", "stopping"}
    /\ nResults + Len(batch) <= MaxResults
    /\ nResults' = nResults + Len(batch)
    /\ sessionFinals' = sessionFinals \o FinalsOf(batch)
    /\ sessionInterim' = LastInterimOf(batch, sessionInterim)
    /\ LET st == ResultLoop(batch, [final |-> finalTranscript,
                                    ref |-> finalTranscriptRef,
                                    interim |-> interimTranscript])
       IN  /\ finalTranscript' = st.final
           /\ finalTranscriptRef' = st.ref
           /\ interimTranscript' = st.interim
    /\ UNCHANGED << messages, isListening, isSpeaking, speechRecognition, error,
                    conversationIdRef, isInitializedRef, isLoading,
                    resetDialogOpen, isValid, route, repoConfig, recog,
                    micPending, utterance, cancelled, spoken, startCall, requests >>
    /\ UNCHANGED << pageVars, utteranceParams, protectedView, voiceVars >>

\* recognition.onend: the engine's end-of-session notification.
RecognitionEnd ==
    /\ recog # "idle"
    /\ recog' = "idle"
    /\ IF finalTranscriptRef # <<>>
       THEN /\ HandleUserInput(Trim(finalTranscriptRef))
            /\ finalTranscript' = <<>>
            /\ finalTranscriptRef' = <<>>
       ELSE UNCHANGED << messages, route, error, isLoading, requests,
                         finalTranscript, finalTranscriptRef >>
    /\ isListening' = FALSE
    /\ UNCHANGED << isSpeaking, speechRecognition, interimTranscript,
                    conversationIdRef, isInitializedRef, resetDialogOpen, isValid,
                    repoConfig, sessionFinals, sessionInterim, nResults,
                    micPending, utterance, cancelled, spoken, startCall >>
    /\ UNCHANGED << pageVars, utteranceParams, protectedView, voiceVars >>

\* Mutant of RecognitionError: the listening flag is left raised.
RecognitionError_StaysListening ==
    /\ recog \in {"running", "stopping"}
    /\ recog' = "failed"
    /\ UNCHANGED << messages, isListening, isSpeaking, speechRecognition,
                    interimTranscript, finalTranscript, finalTranscriptRef, error,
                    conversationIdRef, isInitializedRef, isLoading, resetDialogOpen,
                    isValid, route, repoConfig, sessionFinals, sessionInterim,
                    nResults, micPending, utterance, cancelled, spoken, startCall,
                    requests >>
    /\ UNCHANGED << pageVars, utteranceParams, protectedView, voiceVars >>

\* recognition.onerror; the engine's end notification follows it.
RecognitionError ==
    /\ recog \in {"running", "stopping"}
    /\ recog' = "failed"
    /\ isListening' = FALSE
    /\ UNCHANGED << messages, isSpeaking, speechRecognition, interimTranscript,
                    finalTranscript, finalTranscriptRef, error, conversationIdRef,
                    isInitializedRef, isLoading, resetDialogOpen, isValid,
                    route, repoConfig, sessionFinals, sessionInterim, nResults,
                    micPending, utterance, cancelled, spoken, startCall, requests >>
    /\ UNCHANGED << pageVars, utteranceParams, protectedView, voiceVars >>


\* Mutant of MessageReply: the reply is shown but never spoken.
MessageReply_Silent(q, r) ==
    /\ q \in requests
    /\ requests' = requests \ {q}
    /\ isLoading' = FALSE
    /\ messages' = AppendTurn(messages, SystemTurn(r))
    /\ UNCHANGED << isListening, isSpeaking, speechRecognition, interimTranscript,
                    finalTranscript, finalTranscriptRef, error, conversationIdRef,
                    isInitializedRef, resetDialogOpen, isValid, route, repoConfig,
                    recog, sessionFinals, sessionInterim, nResults, micPending,
                    utterance, cancelled, spoken, startCall >>
    /\ UNCHANGED << pageVars, utteranceParams, protectedView, voiceVars >>

\* ------------------------------------------------------ message endpoint
\* handleUserInput resumed with an OK response carrying reply text r.
MessageReply(q, r) ==
    /\ q \in requests
    /\ requests' = requests \ {q}
    /\ isLoading' = FALSE
    /\ messages' = AppendTurn(messages, SystemTurn(r))
    /\ SpeakText(r)
    /\ UNCHANGED << isListening, isSpeaking, speechRecognition, interimTranscript,
                    finalTranscript, finalTranscriptRef, error, conversationIdRef,
                    isInitializedRef, resetDialogOpen, isValid, route, repoConfig,
                    recog, sessionFinals, sessionInterim, nResults, micPending,
                    startCall >>
    /\ UNCHANGED << pageVars, protectedView, voiceVars >>

\* The catch block of handleUserInput, entered with an Error of this message.
MessageCatch(q, message) ==
    /\ q \in requests
    /\ requests' = requests \ {q}
    /\ error' = ErrProcessing
    /\ isLoading' = FALSE
    /\ IF IsRepositoryError(message)
       THEN /\ HandleReset
            /\ UNCHANGED messages
       ELSE /\ messages' = AppendTurn(messages, SystemTurn(FallbackText))
            /\ UNCHANGED << conversationIdRef, resetDialogOpen, route >>
    /\ UNCHANGED << isListening, isSpeaking, speechRecognition, interimTranscript,
                    finalTranscript, finalTranscriptRef, isInitializedRef, isValid,
                    repoConfig, recog, sessionFinals, sessionInterim, nResults,
                    micPending, utterance, cancelled, spoken, startCall >>
    /\ UNCHANGED << pageVars, utteranceParams, protectedView, voiceVars >>

\* handleUserInput resumed with a non-OK response whose body has this message.
MessageHttpError(q, body) ==
    MessageCatch(q, ThrownMessage(body))

\* handleUserInput resumed with fetch rejected.
MessageNetworkError(q) ==
    MessageCatch(q, FailedToFetch)

\* -------------------------------------------- start-conversation endpoint
\* startNewConversation resumed with an OK response that carries an id.
StartConversationOk(id) ==
    /\ startCall = "pending"
    /\ startCall' = "done"
    /\ conversationIdRef' = id
    /\ UNCHANGED << messages, isListening, isSpeaking, speechRecognition,
                    interimTranscript, finalTranscript, finalTranscriptRef, error,
                    isInitializedRef, isLoading, resetDialogOpen, isValid,
                    route, repoConfig, recog, sessionFinals, sessionInterim,
                    nResults, micPending, utterance, cancelled, spoken, requests >>
    /\ UNCHANGED << pageVars, utteranceParams, protectedView, voiceVars >>

\* Mutant of StartConversationFailed: the start call is issued again.
StartConversationFailed_Retries(kind) ==
    /\ startCall = "pending"
    /\ kind \in {"not_ok", "no_id", "rejected"}
    /\ startCall' = "pending"
    /\ error' = ErrStart
    /\ route' = "auth"
    /\ UNCHANGED << messages, isListening, isSpeaking, speechRecognition,
                    interimTranscript, finalTranscript, finalTranscriptRef,
                    conversationIdRef, isInitializedRef, isLoading, resetDialogOpen,
                    isValid, repoConfig, recog, sessionFinals, sessionInterim,
                    nResults, micPending, utterance, cancelled, spoken, requests >>
    /\ UNCHANGED << pageVars, utteranceParams, protectedView, voiceVars >>

\* startNewConversation resumed with a non-OK response, an OK response
\* without an id, or fetch rejected: all three reach the same catch.
StartConversationFailed(kind) ==
    /\ startCall = "pending"
    /\ kind \in {"not_ok", "no_id", "rejected"}
    /\ startCall' = "done"
    /\ error' = ErrStart
    /\ route' = "auth"
    /\ UNCHANGED << messages, isListening, isSpeaking, speechRecognition,
                    interimTranscript, finalTranscript, finalTranscriptRef,
                    conversationIdRef, isInitializedRef, isLoading, resetDialogOpen,
                    isValid, repoConfig, recog, sessionFinals, sessionInterim,
                    nResults, micPending, utterance, cancelled, spoken, requests >>
    /\ UNCHANGED << pageVars, utteranceParams, protectedView, voiceVars >>

\* ------------------------------------------------------------ synthesizer
\* utterance.onstart
UtteranceStart ==
    /\ utterance = "pending"
    /\ utterance' = "speaking"
    /\ isSpeaking' = TRUE
    /\ UNCHANGED << messages, isListening, speechRecognition, interimTranscript,
                    finalTranscript, finalTranscriptRef, error, conversationIdRef,
                    isInitializedRef, isLoading, resetDialogOpen, isValid,
                    route, repoConfig, recog, sessionFinals, sessionInterim,
                    nResults, micPending, cancelled, spoken, startCall, requests >>
    /\ UNCHANGED << pageVars, utteranceParams, protectedView, voiceVars >>

\* utterance.onend of the current utterance
UtteranceEnd ==
    /\ utterance = "speaking"
    /\ utterance' = "none"
    /\ isSpeaking' = FALSE
    /\ UNCHANGED << messages, isListening, speechRecognition, interimTranscript,
                    finalTranscript, finalTranscriptRef, error, conversationIdRef,
                    isInitializedRef, isLoading, resetDialogOpen, isValid,
                    route, repoConfig, recog, sessionFinals, sessionInterim,
                    nResults, micPending, cancelled, spoken, startCall, requests >>
    /\ UNCHANGED << pageVars, utteranceParams, protectedView, voiceVars >>

\* utterance.onerror of the current utterance
UtteranceError ==
    /\ utterance \in {"pending", "speaking"}
    /\ utterance' = "none"
    /\ isSpeaking' = FALSE
    /\ UNCHANGED << messages, isListening, speechRecognition, interimTranscript,
                    finalTranscript, finalTranscriptRef, error, conversationIdRef,
                    isInitializedRef, isLoading, resetDialogOpen, isValid,
                    route, repoConfig, recog, sessionFinals, sessionInterim,
                    nResults, micPending, cancelled, spoken, startCall, requests >>
    /\ UNCHANGED << pageVars, utteranceParams, protectedView, voiceVars >>

\* utterance.onerror of an utterance that a later speakText cancelled
CancelledUtteranceError ==
    /\ cancelled > 0
    /\ cancelled' = cancelled - 1
    /\ isSpeaking' = FALSE
    /\ UNCHANGED << messages, isListening, speechRecognition, interimTranscript,
                    finalTranscript, finalTranscriptRef, error, conversationIdRef,
                    isInitializedRef, isLoading, resetDialogOpen, isValid,
                    route, repoConfig, recog, sessionFinals, sessionInterim,
                    nResults, micPending, utterance, spoken, startCall, requests >>
    /\ UNCHANGED << pageVars, utteranceParams, protectedView, voiceVars >>

\* ------------------------------------------------------------ reset dialog
\* The Change Repository button: setResetDialogOpen(true)
OpenResetDialog ==
    /\ Rendered
    /\ ~resetDialogOpen
    /\ resetDialogOpen' = TRUE
    /\ UNCHANGED << messages, isListening, isSpeaking, speechRecognition,
                    interimTranscript, finalTranscript, finalTranscriptRef, error,
                    conversationIdRef, isInitializedRef, isLoading, isValid,
                    envVars >>
    /\ UNCHANGED << pageVars, utteranceParams, protectedView, voiceVars >>

\* Mutant of CancelResetDialog: cancelling drops the Session identifier.
CancelResetDialog_Clears ==
    /\ Rendered
    /\ resetDialogOpen
    /\ resetDialogOpen' = FALSE
    /\ conversationIdRef' = NoId
    /\ UNCHANGED << messages, isListening, isSpeaking, speechRecognition,
                    interimTranscript, finalTranscript, finalTranscriptRef, error,
                    isInitializedRef, isLoading, isValid, envVars >>
    /\ UNCHANGED << pageVars, utteranceParams, protectedView, voiceVars >>

\* The dialog's Cancel button or onClose: setResetDialogOpen(false)
CancelResetDialog ==
    /\ Rendered
    /\ resetDialogOpen
    /\ resetDialogOpen' = FALSE
    /\ UNCHANGED << messages, isListening, isSpeaking, speechRecognition,
                    interimTranscript, finalTranscript, finalTranscriptRef, error,
                    conversationIdRef, isInitializedRef, isLoading, isValid,
                    envVars >>
    /\ UNCHANGED << pageVars, utteranceParams, protectedView, voiceVars >>

\* The dialog's Change Repository button: handleReset
ConfirmReset ==
    /\ Rendered
    /\ resetDialogOpen
    /\ HandleReset
    /\ UNCHANGED << messages, isListening, isSpeaking, speechRecognition,
                    interimTranscript, finalTranscript, finalTranscriptRef, error,
                    isInitializedRef, isLoading, isValid, repoConfig, recog,
                    sessionFinals, sessionInterim, nResults, micPending, utterance,
                    cancelled, spoken, startCall, requests >>
    /\ UNCHANGED << pageVars, utteranceParams, protectedView, voiceVars >>

\* ---------------------------------------------------------------- storage
\* 'repoConfig' is removed from localStorage while the page is open.
StorageCleared ==
    /\ repoConfig # "absent"
    /\ repoConfig' = "absent"
    /\ UNCHANGED << compVars, route, recog, sessionFinals, sessionInterim,
                    nResults, micPending, utterance, cancelled, spoken, startCall,
                    requests >>
    /\ UNCHANGED << pageVars, utteranceParams, protectedView, voiceVars >>

\* ------------------------------------------------------------------- Next
\* ------------------------------------------------ settings panel, voices
\* The settings button: setSettingsOpen(!settingsOpen)
ToggleSettings ==
    /\ Rendered
    /\ settingsOpen' = ~settingsOpen
    /\ UNCHANGED << voiceSettings, platformVoices, availableVoices,
                    selectedVoiceRef, selectedVoiceName >>
    /\ UNCHANGED << compVars, envVars, utteranceParams, protectedView, voiceVars >>

\* The Speed slider is moved to value.
ChangeRate(value) ==
    /\ Rendered
    /\ settingsOpen
    /\ voiceSettings' = [voiceSettings EXCEPT !.rate = value]
    /\ UNCHANGED << settingsOpen, platformVoices, availableVoices,
                    selectedVoiceRef, selectedVoiceName >>
    /\ UNCHANGED << compVars, envVars, utteranceParams, protectedView, voiceVars >>

\* The Pitch slider is moved to value.
ChangePitch(value) ==
    /\ Rendered
    /\ settingsOpen
    /\ voiceSettings' = [voiceSettings EXCEPT !.pitch = value]
    /\ UNCHANGED << settingsOpen, platformVoices, availableVoices,
                    selectedVoiceRef, selectedVoiceName >>
    /\ UNCHANGED << compVars, envVars, utteranceParams, protectedView, voiceVars >>

\* Mutant of LoadVoices: the first curated voice is selected even when a
\* voice is selected already.
LoadVoices_AlwaysDefaults(voices) ==
    /\ platformVoices' = voices
    /\ availableVoices' = TopVoices(voices)
    /\ IF Len(TopVoices(voices)) > 0
         THEN /\ selectedVoiceRef' = TopVoices(voices)[1].name
              /\ selectedVoiceName' = TopVoices(voices)[1].name
         ELSE UNCHANGED << selectedVoiceRef, selectedVoiceName >>
    /\ UNCHANGED << settingsOpen, voiceSettings >>
    /\ UNCHANGED << compVars, envVars, utteranceParams, protectedView, voiceVars >>

\* The platform reports voices (voiceschanged) and loadVoices runs.
LoadVoices(voices) ==
    /\ platformVoices' = voices
    /\ availableVoices' = TopVoices(voices)
    /\ IF selectedVoiceRef = "null" /\ Len(TopVoices(voices)) > 0
         THEN /\ selectedVoiceRef' = TopVoices(voices)[1].name
              /\ selectedVoiceName' = TopVoices(voices)[1].name
         ELSE UNCHANGED << selectedVoiceRef, selectedVoiceName >>
    /\ UNCHANGED << settingsOpen, voiceSettings >>
    /\ UNCHANGED << compVars, envVars, utteranceParams, protectedView, voiceVars >>

\* The user picks an entry of the Voice select, which lists availableVoices.
HandleVoiceChange(voiceName) ==
    /\ Rendered
    /\ settingsOpen
    /\ \E i \in 1..Len(availableVoices) : availableVoices[i].name = voiceName
    /\ IF HasVoice(platformVoices, voiceName)
         THEN /\ selectedVoiceRef' = voiceName
              /\ selectedVoiceName' = voiceName
         ELSE UNCHANGED << selectedVoiceRef, selectedVoiceName >>
    /\ UNCHANGED << settingsOpen, voiceSettings, platformVoices, availableVoices >>
    /\ UNCHANGED << compVars, envVars, utteranceParams, protectedView, voiceVars >>

\* The application renders the protected route again.
RenderProtectedRoute ==
    /\ protectedView' = ProtectedRoute(repoConfig)
    /\ UNCHANGED << compVars, envVars, pageVars, utteranceParams, voiceVars >>

Next ==
    \/ ToggleListeningStop
    \/ ToggleListeningStart
    \/ \E captured \in BOOLEAN : MicrophoneGranted(captured)
    \/ \E captured \in BOOLEAN : MicrophoneDenied(captured)
    \/ \E batch \in Batches : RecognitionResult(batch)
    \/ RecognitionEnd
    \/ RecognitionError
    \/ \E q \in requests, r \in Replies : MessageReply(q, r)
    \/ \E q \in requests, body \in ErrorBodies : MessageHttpError(q, body)
    \/ \E q \in requests : MessageNetworkError(q)
    \/ \E id \in ConversationIds : StartConversationOk(id)
    \/ \E kind \in {"not_ok", "no_id", "rejected"} : StartConversationFailed(kind)
    \/ UtteranceStart
    \/ UtteranceEnd
    \/ UtteranceError
    \/ CancelledUtteranceError
    \/ OpenResetDialog
    \/ CancelResetDialog
    \/ ConfirmReset
    \/ StorageCleared
    \/ RenderProtectedRoute

Spec ==
    Init /\ [][Next]_vars

\* ------------------------------------- the page with its settings panel
\* The conversation page with a complete configuration and a recognition
\* engine, followed through capture, reply and playback while the user
\* works the settings panel and the platform reports voices. Failures of
\* the microphone, the engine and the backend are left to Spec.
InitPage ==
    /\ Init
    /\ repoConfig = "complete"
    /\ speechRecognition

NextPage ==
    \/ ToggleSettings
    \/ \E value \in SliderValues : ChangeRate(value)
    \/ \E value \in SliderValues : ChangePitch(value)
    \/ \E voices \in PlatformVoiceLists : LoadVoices(voices)
    \/ \E i \in 1..Len(availableVoices) : HandleVoiceChange(availableVoices[i].name)
    \/ ToggleListeningStart
    \/ MicrophoneGranted(FALSE)
    \/ RecognitionResult(<< [transcript |-> <<"show">>, isFinal |-> TRUE] >>)
    \/ RecognitionEnd
    \/ \E id \in ConversationIds : StartConversationOk(id)
    \/ \E q \in requests, r \in Replies : MessageReply(q, r)
    \/ UtteranceStart
    \/ UtteranceEnd

SpecPage ==
    InitPage /\ [][NextPage]_vars

\* =============================================== VoiceChat (VoiceChat.tsx)
\* The WebRTC voice call component as a state machine of its own: the
\* conversation page above stays as constructed while it runs. Errors are
\* kept by their message, '' is "". The peer connection reports a
\* connection state only once an answer is installed, and nothing after
\* close(); the data channel delivers messages while it is connected.

NoDetail == ""

\* message of the rejection of getUserMedia
MediaErrors == { "Permission denied", "Requested device not found" }

ErrPeerConnection == "Failed to construct 'RTCPeerConnection'"

ErrAudioContext == "Failed to construct 'AudioContext'"

\* TypeError of a member access on peerConnectionRef.current = null
ErrNullPeer == "Cannot read properties of null"

\* message of the rejection of createOffer, setLocalDescription, setRemoteDescription
StepErrors ==
    [ offer  |-> "Failed to execute 'createOffer'",
      local  |-> "Failed to execute 'setLocalDescription'",
      remote |-> "Failed to execute 'setRemoteDescription'" ]

\* errorData.detail of a non-OK response; "" when it has none.
Details == { "Connection refused by server", NoDetail }

ErrEstablish == "Failed to establish WebRTC connection"

ErrSendInput == "Failed to send audio input"

ErrRtcConfig == "HTTP error! status: 500"

VcFailedToFetch == "Failed to fetch"

\* SyntaxError message of JSON.parse
ErrJson == "Unexpected token in JSON"

\* data.message of a data channel message of type 'error'
ServerErrorMessage == "Quota exceeded"

\* detail || fallback
OrElse(detail, fallback) ==
    IF detail # NoDetail THEN detail ELSE fallback

\* States in which handleConnectionStateChange calls stopWebRTC.
TeardownStates == { "disconnected", "failed", "closed" }

\* States an open peer connection can report after the given one.
NextConnectionStates(c) ==
    CASE c = "new"          -> { "connecting" }
      [] c = "connecting"   -> { "connected", "failed" }
      [] c = "connected"    -> { "disconnected" }
      [] c = "disconnected" -> { "connected", "failed" }
      [] OTHER              -> { }

\* type of a data channel message; "malformed" is data JSON.parse rejects.
MessageKinds == { "error", "send_input", "log", "malformed" }

\* What stopWebRTC reads and writes.
VoiceState ==
    [ peerConnectionRef |-> peerConnectionRef,
      connectionState   |-> connectionState,
      stream            |-> stream,
      attached          |-> attached,
      strayStreams      |-> strayStreams,
      strayPeers        |-> strayPeers,
      audioContextRef   |-> audioContextRef,
      sourceInputRef    |-> sourceInputRef,
      sourceOutputRef   |-> sourceOutputRef,
      isRecording       |-> isRecording,
      isMuted           |-> isMuted ]

\* Mutant of StopWebRTC: the mute flag is flipped, not cleared.
StopWebRTC_TogglesMute(s) ==
    [ s EXCEPT
        !.stream = IF s.peerConnectionRef = "open" /\ s.attached THEN "stopped" ELSE @,
        !.connectionState = IF s.peerConnectionRef = "open" THEN "closed" ELSE @,
        !.peerConnectionRef = "null",
        !.audioContextRef = "null",
        !.sourceInputRef = "null",
        !.sourceOutputRef = "null",
        !.isRecording = FALSE,
        !.isMuted = ~@ ]

\* stopWebRTC: stop the tracks of the peer connection's senders, close and
\* release it, release the audio graph, clear isRecording and isMuted.
StopWebRTC(s) ==
    [ s EXCEPT
        !.stream = IF s.peerConnectionRef = "open" /\ s.attached THEN "stopped" ELSE @,
        !.connectionState = IF s.peerConnectionRef = "open" THEN "closed" ELSE @,
        !.peerConnectionRef = "null",
        !.audioContextRef = "null",
        !.sourceInputRef = "null",
        !.sourceOutputRef = "null",
        !.isRecording = FALSE,
        !.isMuted = FALSE ]

\* The step leaves the component in state s.
SetVoiceState(s) ==
    /\ peerConnectionRef' = s.peerConnectionRef
    /\ connectionState' = s.connectionState
    /\ stream' = s.stream
    /\ attached' = s.attached
    /\ strayStreams' = s.strayStreams
    /\ strayPeers' = s.strayPeers
    /\ audioContextRef' = s.audioContextRef
    /\ sourceInputRef' = s.sourceInputRef
    /\ sourceOutputRef' = s.sourceOutputRef
    /\ isRecording' = s.isRecording
    /\ isMuted' = s.isMuted

\* Mutant of SetupCatch: the loading flag is left raised.
SetupCatch_KeepsLoading(s, message) ==
    /\ vcError' = message
    /\ SetVoiceState(StopWebRTC(s))
    /\ vcIsLoading' = TRUE
    /\ phase' = "idle"

\* The catch and finally of setupWebRTC, entered from state s with an
\* Error of this message.
SetupCatch(s, message) ==
    /\ vcError' = message
    /\ SetVoiceState(StopWebRTC(s))
    /\ vcIsLoading' = FALSE
    /\ phase' = "idle"

\* The main button takes clicks.
ButtonEnabled ==
    mounted /\ ~vcIsLoading /\ rtcConfig # "null" /\ apiKey

\* The peer connection has its local description: it gathers candidates.
Gathering ==
    peerConnectionRef = "open" /\ phase \in {"signal", "remote", "idle"}

\* The answer of the offer is installed in the peer connection.
AnswerInstalled ==
    peerConnectionRef = "open" /\ phase = "idle"

\* The updateAudioLevels effect has an animation frame requested: it
\* re-runs on every change of isRecording or isConnected and its cleanup
\* cancels the frame.
SamplingScheduled ==
    mounted /\ (isRecording \/ isConnected)

speechVars == << compVars, envVars, pageVars, utteranceParams, protectedView >>

\* ------------------------------------------------------ RTC configuration
\* fetchRTCConfig resumed with an OK response carrying this rtc_config.
FetchRTCConfigOk(config) ==
    /\ rtcConfigCall = "pending"
    /\ rtcConfigCall' = "done"
    /\ rtcConfig' = config
    /\ vcIsLoading' = FALSE
    /\ UNCHANGED << apiKey, isRecording, isMuted, selectedVoice, vcError,
                    isConnected, vcIsListening, peerConnectionRef, connectionState,
                    reportedState, stream, attached, strayStreams, strayPeers, audioContextRef,
                    sourceInputRef, sourceOutputRef, webrtcIdRef, handlerVoice,
                    phase, nOpens, nCandidates, iceRequests, iceDelivered,
                    nChannelMessages, inputRequests, mounted, closedDuring >>
    /\ UNCHANGED speechVars

\* fetchRTCConfig resumed with a non-OK response or fetch rejected.
FetchRTCConfigFailed(message) ==
    /\ rtcConfigCall = "pending"
    /\ rtcConfigCall' = "done"
    /\ vcError' = message
    /\ vcIsLoading' = FALSE
    /\ UNCHANGED << apiKey, rtcConfig, isRecording, isMuted, selectedVoice,
                    isConnected, vcIsListening, peerConnectionRef, connectionState,
                    reportedState, stream, attached, strayStreams, strayPeers, audioContextRef,
                    sourceInputRef, sourceOutputRef, webrtcIdRef, handlerVoice,
                    phase, nOpens, nCandidates, iceRequests, iceDelivered,
                    nChannelMessages, inputRequests, mounted, closedDuring >>
    /\ UNCHANGED speechVars

\* ------------------------------------------------------------ setupWebRTC
\* The main button while not recording: setupWebRTC up to its await of
\* getUserMedia. The button is disabled without apiKey, so the early
\* return of setupWebRTC is never taken.
SetupWebRTC ==
    /\ ButtonEnabled
    /\ ~isRecording
    /\ nOpens < MaxOpens
    /\ nOpens' = nOpens + 1
    /\ vcIsLoading' = TRUE
    /\ vcError' = NoError
    /\ phase' = "media"
    /\ handlerVoice' = selectedVoice
    /\ UNCHANGED << apiKey, rtcConfig, rtcConfigCall, isRecording, isMuted,
                    selectedVoice, isConnected, vcIsListening, peerConnectionRef,
                    connectionState, reportedState, stream, attached, strayStreams, strayPeers,
                    audioContextRef, sourceInputRef, sourceOutputRef, webrtcIdRef,
                    nCandidates, iceRequests, iceDelivered, nChannelMessages,
                    inputRequests, mounted, closedDuring >>
    /\ UNCHANGED speechVars

\* setupWebRTC resumed with the stream: the call identifier is drawn, the
\* peer connection created (the constructor throws on a configuration it
\* rejects), the tracks added, the audio graph built (the AudioContext
\* constructor may throw), the handlers installed, createOffer called.
GetUserMediaResolved(audioContextThrows) ==
    /\ phase = "media"
    /\ webrtcIdRef' = nOpens
    /\ LET acquired == [VoiceState EXCEPT
                           !.stream = "live",
                           !.attached = FALSE,
                           !.strayStreams = IF stream = "live" THEN @ + 1 ELSE @]
           created  == [acquired EXCEPT
                           !.peerConnectionRef = "open",
                           !.connectionState = "new",
                           !.attached = TRUE,
                           !.strayPeers = IF peerConnectionRef = "open" THEN @ + 1 ELSE @]
           built    == [created EXCEPT !.audioContextRef = "open",
                                       !.sourceInputRef = "node"]
       IN  IF rtcConfig = "invalid"
           THEN /\ SetupCatch(acquired, ErrPeerConnection)
                /\ UNCHANGED reportedState
           ELSE IF audioContextThrows
           THEN /\ SetupCatch(created, ErrAudioContext)
                /\ reportedState' = "none"
           ELSE /\ SetVoiceState(built)
                /\ reportedState' = "none"
                /\ phase' = "offer"
                /\ UNCHANGED << vcError, vcIsLoading >>
    /\ UNCHANGED << apiKey, rtcConfig, rtcConfigCall, selectedVoice, isConnected,
                    vcIsListening, handlerVoice, nOpens, nCandidates, iceRequests,
                    iceDelivered, nChannelMessages, inputRequests, mounted, closedDuring >>
    /\ UNCHANGED speechVars

\* setupWebRTC resumed with getUserMedia rejected.
GetUserMediaRejected(message) ==
    /\ phase = "media"
    /\ SetupCatch(VoiceState, message)
    /\ UNCHANGED << apiKey, rtcConfig, rtcConfigCall, selectedVoice, isConnected,
                    vcIsListening, reportedState, webrtcIdRef, handlerVoice,
                    nOpens, nCandidates, iceRequests, iceDelivered,
                    nChannelMessages, inputRequests, mounted, closedDuring >>
    /\ UNCHANGED speechVars

\* setupWebRTC resumed after an await that resolved, from the phase given:
\* createOffer, setLocalDescription, or the fetch of the offer with an OK
\* response. Each continuation dereferences peerConnectionRef.current.
SetupStepResolved(step) ==
    /\ step \in {"offer", "local", "signal"}
    /\ phase = step
    /\ IF peerConnectionRef = "null"
       THEN SetupCatch(VoiceState, ErrNullPeer)
       ELSE /\ phase' = CASE step = "offer" -> "local"
                          [] step = "local" -> "signal"
                          [] step = "signal" -> "remote"
            /\ UNCHANGED << vcError, vcIsLoading, peerConnectionRef,
                            connectionState, stream, attached, strayStreams, strayPeers, audioContextRef,
                            sourceInputRef, sourceOutputRef, isRecording, isMuted >>
    /\ UNCHANGED << apiKey, rtcConfig, rtcConfigCall, selectedVoice, isConnected,
                    vcIsListening, reportedState, webrtcIdRef, handlerVoice,
                    nOpens, nCandidates, iceRequests, iceDelivered,
                    nChannelMessages, inputRequests, mounted, closedDuring >>
    /\ UNCHANGED speechVars

\* setupWebRTC resumed with createOffer, setLocalDescription or
\* setRemoteDescription rejected.
SetupStepRejected(step) ==
    /\ step \in {"offer", "local", "remote"}
    /\ phase = step
    /\ SetupCatch(VoiceState, StepErrors[step])
    /\ UNCHANGED << apiKey, rtcConfig, rtcConfigCall, selectedVoice, isConnected,
                    vcIsListening, reportedState, webrtcIdRef, handlerVoice,
                    nOpens, nCandidates, iceRequests, iceDelivered,
                    nChannelMessages, inputRequests, mounted, closedDuring >>
    /\ UNCHANGED speechVars

\* setupWebRTC resumed with a non-OK response to the offer.
OfferResponseNotOk(detail) ==
    /\ phase = "signal"
    /\ SetupCatch(VoiceState, OrElse(detail, ErrEstablish))
    /\ UNCHANGED << apiKey, rtcConfig, rtcConfigCall, selectedVoice, isConnected,
                    vcIsListening, reportedState, webrtcIdRef, handlerVoice,
                    nOpens, nCandidates, iceRequests, iceDelivered,
                    nChannelMessages, inputRequests, mounted, closedDuring >>
    /\ UNCHANGED speechVars

\* setupWebRTC resumed with the fetch of the offer rejected.
OfferFetchRejected ==
    /\ phase = "signal"
    /\ SetupCatch(VoiceState, VcFailedToFetch)
    /\ UNCHANGED << apiKey, rtcConfig, rtcConfigCall, selectedVoice, isConnected,
                    vcIsListening, reportedState, webrtcIdRef, handlerVoice,
                    nOpens, nCandidates, iceRequests, iceDelivered,
                    nChannelMessages, inputRequests, mounted, closedDuring >>
    /\ UNCHANGED speechVars

\* setupWebRTC resumed with the answer installed: setIsRecording(true).
\* A closed peer connection does not resolve setRemoteDescription.
SetRemoteDescriptionResolved ==
    /\ phase = "remote"
    /\ peerConnectionRef = "open"
    /\ isRecording' = TRUE
    /\ vcIsLoading' = FALSE
    /\ phase' = "idle"
    /\ UNCHANGED << apiKey, rtcConfig, rtcConfigCall, isMuted, selectedVoice,
                    vcError, isConnected, vcIsListening, peerConnectionRef,
                    connectionState, reportedState, stream, attached, strayStreams, strayPeers,
                    audioContextRef, sourceInputRef, sourceOutputRef, webrtcIdRef,
                    handlerVoice, nOpens, nCandidates, iceRequests, iceDelivered,
                    nChannelMessages, inputRequests, mounted, closedDuring >>
    /\ UNCHANGED speechVars

\* -------------------------------------------------------- ICE candidates
\* handleIceCandidate for an event with a candidate: the candidate is
\* posted at once with webrtcIdRef.current.
HandleIceCandidate ==
    /\ Gathering
    /\ nCandidates < MaxCandidates
    /\ nCandidates' = nCandidates + 1
    /\ iceRequests' = iceRequests \cup
           { [candidate |-> nCandidates + 1, webrtc_id |-> webrtcIdRef] }
    /\ UNCHANGED << apiKey, rtcConfig, rtcConfigCall, isRecording, isMuted,
                    selectedVoice, vcError, vcIsLoading, isConnected,
                    vcIsListening, peerConnectionRef, connectionState,
                    reportedState, stream, attached, strayStreams, strayPeers, audioContextRef,
                    sourceInputRef, sourceOutputRef, webrtcIdRef, handlerVoice,
                    phase, nOpens, iceDelivered, nChannelMessages, inputRequests,
                    mounted, closedDuring >>
    /\ UNCHANGED speechVars

\* handleIceCandidate resumed with a response: its status is not read.
IceCandidateDelivered(r) ==
    /\ r \in iceRequests
    /\ iceRequests' = iceRequests \ {r}
    /\ iceDelivered' = iceDelivered \cup {r}
    /\ UNCHANGED << apiKey, rtcConfig, rtcConfigCall, isRecording, isMuted,
                    selectedVoice, vcError, vcIsLoading, isConnected,
                    vcIsListening, peerConnectionRef, connectionState,
                    reportedState, stream, attached, strayStreams, strayPeers, audioContextRef,
                    sourceInputRef, sourceOutputRef, webrtcIdRef, handlerVoice,
                    phase, nOpens, nCandidates, nChannelMessages, inputRequests,
                    mounted, closedDuring >>
    /\ UNCHANGED speechVars

\* handleIceCandidate resumed with fetch rejected: the catch only logs.
IceCandidateRejected(r) ==
    /\ r \in iceRequests
    /\ iceRequests' = iceRequests \ {r}
    /\ UNCHANGED << apiKey, rtcConfig, rtcConfigCall, isRecording, isMuted,
                    selectedVoice, vcError, vcIsLoading, isConnected,
                    vcIsListening, peerConnectionRef, connectionState,
                    reportedState, stream, attached, strayStreams, strayPeers, audioContextRef,
                    sourceInputRef, sourceOutputRef, webrtcIdRef, handlerVoice,
                    phase, nOpens, nCandidates, iceDelivered, nChannelMessages,
                    inputRequests, mounted, closedDuring >>
    /\ UNCHANGED speechVars

\* ------------------------------------------------------------ remote track
\* handleTrack for the remote audio track, fired while the answer is applied.
HandleTrack ==
    /\ peerConnectionRef = "open"
    /\ phase \in {"remote", "idle"}
    /\ sourceOutputRef = "null"
    /\ audioContextRef = "open"
    /\ sourceOutputRef' = "node"
    /\ UNCHANGED << apiKey, rtcConfig, rtcConfigCall, isRecording, isMuted,
                    selectedVoice, vcError, vcIsLoading, isConnected,
                    vcIsListening, peerConnectionRef, connectionState,
                    reportedState, stream, attached, strayStreams, strayPeers, audioContextRef,
                    sourceInputRef, webrtcIdRef, handlerVoice, phase, nOpens,
                    nCandidates, iceRequests, iceDelivered, nChannelMessages,
                    inputRequests, mounted, closedDuring >>
    /\ UNCHANGED speechVars

\* ------------------------------------------------------- connection state
\* Mutant of HandleConnectionStateChange: 'disconnected' is not torn down.
HandleConnectionStateChange_KeepsDisconnected(state) ==
    /\ AnswerInstalled
    /\ state \in NextConnectionStates(connectionState)
    /\ reportedState' = state
    /\ isConnected' = (state = "connected")
    /\ LET reported == [VoiceState EXCEPT !.connectionState = state]
       IN  IF state \in {"failed", "closed"}
           THEN SetVoiceState(StopWebRTC(reported))
           ELSE SetVoiceState(reported)
    /\ UNCHANGED << apiKey, rtcConfig, rtcConfigCall, selectedVoice, vcError,
                    vcIsLoading, vcIsListening, webrtcIdRef, handlerVoice, phase,
                    nOpens, nCandidates, iceRequests, iceDelivered,
                    nChannelMessages, inputRequests, mounted, closedDuring >>
    /\ UNCHANGED speechVars

\* handleConnectionStateChange with the peer connection in this state.
HandleConnectionStateChange(state) ==
    /\ AnswerInstalled
    /\ state \in NextConnectionStates(connectionState)
    /\ reportedState' = state
    /\ isConnected' = (state = "connected")
    /\ LET reported == [VoiceState EXCEPT !.connectionState = state]
       IN  IF state \in TeardownStates
           THEN SetVoiceState(StopWebRTC(reported))
           ELSE SetVoiceState(reported)
    /\ UNCHANGED << apiKey, rtcConfig, rtcConfigCall, selectedVoice, vcError,
                    vcIsLoading, vcIsListening, webrtcIdRef, handlerVoice, phase,
                    nOpens, nCandidates, iceRequests, iceDelivered,
                    nChannelMessages, inputRequests, mounted, closedDuring >>
    /\ UNCHANGED speechVars

\* ----------------------------------------------------------- data channel
\* Mutant of HandleDataChannelMessage: an 'error' message ends the call.
HandleDataChannelMessage_ErrorCloses(kind) ==
    /\ peerConnectionRef = "open"
    /\ connectionState = "connected"
    /\ kind \in MessageKinds
    /\ nChannelMessages < MaxMessages
    /\ nChannelMessages' = nChannelMessages + 1
    /\ CASE kind = "error" ->
              /\ vcError' = ServerErrorMessage
              /\ SetVoiceState(StopWebRTC(VoiceState))
              /\ UNCHANGED << vcIsListening, inputRequests >>
         [] kind = "send_input" ->
              /\ vcIsListening' = TRUE
              /\ inputRequests' = inputRequests \cup
                     { [message |-> nChannelMessages + 1, webrtc_id |-> webrtcIdRef,
                        api_key |-> apiKey, voice_name |-> handlerVoice] }
              /\ UNCHANGED vcError
              /\ SetVoiceState(VoiceState)
         [] kind = "malformed" ->
              /\ vcError' = ErrJson
              /\ vcIsListening' = FALSE
              /\ UNCHANGED inputRequests
              /\ SetVoiceState(VoiceState)
         [] OTHER ->
              /\ UNCHANGED << vcError, vcIsListening, inputRequests >>
              /\ SetVoiceState(VoiceState)
    /\ UNCHANGED << apiKey, rtcConfig, rtcConfigCall, selectedVoice, vcIsLoading,
                    isConnected, reportedState, webrtcIdRef, handlerVoice, phase,
                    nOpens, nCandidates, iceRequests, iceDelivered, mounted, closedDuring >>
    /\ UNCHANGED speechVars

\* handleDataChannelMessage up to its await of fetch (or its end), for a
\* message of this type.
HandleDataChannelMessage(kind) ==
    /\ peerConnectionRef = "open"
    /\ connectionState = "connected"
    /\ kind \in MessageKinds
    /\ nChannelMessages < MaxMessages
    /\ nChannelMessages' = nChannelMessages + 1
    /\ CASE kind = "error" ->
              /\ vcError' = ServerErrorMessage
              /\ UNCHANGED << vcIsListening, inputRequests >>
         [] kind = "send_input" ->
              /\ vcIsListening' = TRUE
              /\ inputRequests' = inputRequests \cup
                     { [message |-> nChannelMessages + 1, webrtc_id |-> webrtcIdRef,
                        api_key |-> apiKey, voice_name |-> handlerVoice] }
              /\ UNCHANGED vcError
         [] kind = "malformed" ->
              /\ vcError' = ErrJson
              /\ vcIsListening' = FALSE
              /\ UNCHANGED inputRequests
         [] OTHER ->
              UNCHANGED << vcError, vcIsListening, inputRequests >>
    /\ UNCHANGED << apiKey, rtcConfig, rtcConfigCall, isRecording, isMuted,
                    selectedVoice, vcIsLoading, isConnected, peerConnectionRef,
                    connectionState, reportedState, stream, attached, strayStreams, strayPeers,
                    audioContextRef, sourceInputRef, sourceOutputRef, webrtcIdRef,
                    handlerVoice, phase, nOpens, nCandidates, iceRequests,
                    iceDelivered, mounted, closedDuring >>
    /\ UNCHANGED speechVars

\* handleDataChannelMessage resumed with an OK response of input_hook.
InputHookOk(q) ==
    /\ q \in inputRequests
    /\ inputRequests' = inputRequests \ {q}
    /\ vcIsListening' = FALSE
    /\ UNCHANGED << apiKey, rtcConfig, rtcConfigCall, isRecording, isMuted,
                    selectedVoice, vcError, vcIsLoading, isConnected,
                    peerConnectionRef, connectionState, reportedState, stream,
                    attached, strayStreams, strayPeers, audioContextRef, sourceInputRef, sourceOutputRef,
                    webrtcIdRef, handlerVoice, phase, nOpens, nCandidates,
                    iceRequests, iceDelivered, nChannelMessages, mounted, closedDuring >>
    /\ UNCHANGED speechVars

\* Mutant of InputHookFailed: the listening indicator stays raised.
InputHookFailed_StaysListening(q, message) ==
    /\ q \in inputRequests
    /\ inputRequests' = inputRequests \ {q}
    /\ vcError' = message
    /\ UNCHANGED << apiKey, rtcConfig, rtcConfigCall, isRecording, isMuted,
                    selectedVoice, vcIsLoading, isConnected, vcIsListening,
                    peerConnectionRef, connectionState, reportedState, stream,
                    attached, strayStreams, strayPeers, audioContextRef, sourceInputRef, sourceOutputRef,
                    webrtcIdRef, handlerVoice, phase, nOpens, nCandidates,
                    iceRequests, iceDelivered, nChannelMessages, mounted, closedDuring >>
    /\ UNCHANGED speechVars

\* The catch of handleDataChannelMessage after its await, entered with an
\* Error of this message.
InputHookFailed(q, message) ==
    /\ q \in inputRequests
    /\ inputRequests' = inputRequests \ {q}
    /\ vcError' = message
    /\ vcIsListening' = FALSE
    /\ UNCHANGED << apiKey, rtcConfig, rtcConfigCall, isRecording, isMuted,
                    selectedVoice, vcIsLoading, isConnected, peerConnectionRef,
                    connectionState, reportedState, stream, attached, strayStreams, strayPeers,
                    audioContextRef, sourceInputRef, sourceOutputRef, webrtcIdRef,
                    handlerVoice, phase, nOpens, nCandidates, iceRequests,
                    iceDelivered, nChannelMessages, mounted, closedDuring >>
    /\ UNCHANGED speechVars

\* handleDataChannelMessage resumed with a non-OK response of input_hook.
InputHookNotOk(q, detail) ==
    InputHookFailed(q, OrElse(detail, ErrSendInput))

\* handleDataChannelMessage resumed with the fetch of input_hook rejected.
InputHookRejected(q) ==
    InputHookFailed(q, VcFailedToFetch)

\* --------------------------------------------------------------- controls
\* The main button while recording: stopWebRTC.
ClickStop ==
    /\ ButtonEnabled
    /\ isRecording
    /\ SetVoiceState(StopWebRTC(VoiceState))
    /\ UNCHANGED << apiKey, rtcConfig, rtcConfigCall, selectedVoice, vcError,
                    vcIsLoading, isConnected, vcIsListening, reportedState,
                    webrtcIdRef, handlerVoice, phase, nOpens, nCandidates,
                    iceRequests, iceDelivered, nChannelMessages, inputRequests,
                    mounted, closedDuring >>
    /\ UNCHANGED speechVars

\* toggleMute, from the Mute button shown while recording.
ToggleMute ==
    /\ mounted
    /\ isRecording
    /\ peerConnectionRef = "open"
    /\ isMuted' = ~isMuted
    /\ UNCHANGED << apiKey, rtcConfig, rtcConfigCall, isRecording, selectedVoice,
                    vcError, vcIsLoading, isConnected, vcIsListening,
                    peerConnectionRef, connectionState, reportedState, stream,
                    attached, strayStreams, strayPeers, audioContextRef, sourceInputRef, sourceOutputRef,
                    webrtcIdRef, handlerVoice, phase, nOpens, nCandidates,
                    iceRequests, iceDelivered, nChannelMessages, inputRequests,
                    mounted, closedDuring >>
    /\ UNCHANGED speechVars

\* The voice selector, disabled while recording or loading.
SelectVoice(voice) ==
    /\ mounted
    /\ ~isRecording
    /\ ~vcIsLoading
    /\ voice \in Voices \ {selectedVoice}
    /\ selectedVoice' = voice
    /\ UNCHANGED << apiKey, rtcConfig, rtcConfigCall, isRecording, isMuted,
                    vcError, vcIsLoading, isConnected, vcIsListening,
                    peerConnectionRef, connectionState, reportedState, stream,
                    attached, strayStreams, strayPeers, audioContextRef, sourceInputRef, sourceOutputRef,
                    webrtcIdRef, handlerVoice, phase, nOpens, nCandidates,
                    iceRequests, iceDelivered, nChannelMessages, inputRequests,
                    mounted, closedDuring >>
    /\ UNCHANGED speechVars

\* The component unmounts: the cleanup of the mount effect calls stopWebRTC.
Unmount ==
    /\ mounted
    /\ mounted' = FALSE
    /\ closedDuring' = phase
    /\ SetVoiceState(StopWebRTC(VoiceState))
    /\ UNCHANGED << apiKey, rtcConfig, rtcConfigCall, selectedVoice, vcError,
                    vcIsLoading, isConnected, vcIsListening, reportedState,
                    webrtcIdRef, handlerVoice, phase, nOpens, nCandidates,
                    iceRequests, iceDelivered, nChannelMessages, inputRequests >>
    /\ UNCHANGED speechVars

\* ------------------------------------------------------------- InitVoice
\* The conversation page as constructed over a complete configuration,
\* and VoiceChat mounted with or without its apiKey.
InitVoice ==
    /\ repoConfig = "complete"
    /\ speechRecognition = TRUE
    /\ messages = <<>>
    /\ isListening = FALSE
    /\ isSpeaking = FALSE
    /\ interimTranscript = <<>>
    /\ finalTranscript = <<>>
    /\ finalTranscriptRef = <<>>
    /\ error = NoError
    /\ conversationIdRef = NoId
    /\ isInitializedRef = TRUE
    /\ isLoading = FALSE
    /\ resetDialogOpen = FALSE
    /\ isValid = TRUE
    /\ route = "speech"
    /\ recog = "idle"
    /\ sessionFinals = <<>>
    /\ sessionInterim = <<>>
    /\ nResults = 0
    /\ micPending = [c \in BOOLEAN |-> 0]
    /\ utterance = "none"
    /\ cancelled = 0
    /\ spoken = <<>>
    /\ startCall = "pending"
    /\ requests = {}
    /\ PageMounted
    /\ \E key \in BOOLEAN : VoiceChatMounted(key)

NextVoice ==
    \/ \E config \in {"valid", "invalid"} : FetchRTCConfigOk(config)
    \/ FetchRTCConfigFailed(ErrRtcConfig)
    \/ SetupWebRTC
    \/ \E audioContextThrows \in BOOLEAN : GetUserMediaResolved(audioContextThrows)
    \/ \E message \in MediaErrors : GetUserMediaRejected(message)
    \/ \E step \in {"offer", "local", "signal"} : SetupStepResolved(step)
    \/ \E step \in {"offer", "local", "remote"} : SetupStepRejected(step)
    \/ \E detail \in Details : OfferResponseNotOk(detail)
    \/ OfferFetchRejected
    \/ SetRemoteDescriptionResolved
    \/ HandleIceCandidate
    \/ \E r \in iceRequests : IceCandidateDelivered(r)
    \/ \E r \in iceRequests : IceCandidateRejected(r)
    \/ HandleTrack
    \/ \E state \in {"connecting", "connected", "disconnected", "failed"} :
           HandleConnectionStateChange(state)
    \/ \E kind \in MessageKinds : HandleDataChannelMessage(kind)
    \/ \E q \in inputRequests : InputHookOk(q)
    \/ \E q \in inputRequests, detail \in Details : InputHookNotOk(q, detail)
    \/ \E q \in inputRequests : InputHookRejected(q)
    \/ ClickStop
    \/ ToggleMute
    \/ \E voice \in Voices : SelectVoice(voice)
    \/ Unmount

SpecVoice ==
    InitVoice /\ [][NextVoice]_vars



\* =================================================================== claims
\* Vocabulary of the properties, stated apart from the handlers above.
OnlyBlanks(s) ==
    \A i \in 1..Len(s) : s[i] = Blank

\* t is s without its leading and trailing blanks.
IsStripped(t, s) ==
    \E i \in 1..Len(s) + 1, j \in 0..Len(s) :
        /\ t = SubSeq(s, i, j)
        /\ \A k \in 1..Len(s) : (k < i \/ k > j) => s[k] = Blank
        /\ t = <<>> \/ (t[1] # Blank /\ t[Len(t)] # Blank)

StrippedOf(s) ==
    CHOOSE t \in { SubSeq(s, i, j) : i \in 1..Len(s) + 1, j \in 0..Len(s) } :
        IsStripped(t, s)

\* The fragments joined by a single space, in order.
RECURSIVE JoinBySpace(_)
JoinBySpace(fragments) ==
    IF fragments = <<>> THEN <<>>
    ELSE IF Len(fragments) = 1 THEN fragments[1]
    ELSE fragments[1] \o <<Blank>> \o JoinBySpace(Tail(fragments))

\* part occurs in whole as a run of consecutive tokens.
Contains(whole, part) ==
    \E i \in 1..Len(whole) + 1 :
        /\ i + Len(part) - 1 <= Len(whole)
        /\ SubSeq(whole, i, i + Len(part) - 1) = part

IsPrefix(s, t) ==
    /\ Len(s) <= Len(t)
    /\ SubSeq(t, 1, Len(s)) = s

\* The engine started a capture session in this step.
RecognitionStarted ==
    recog = "idle" /\ recog' = "running"

\* C1: submitUtterance never has two backend message requests outstanding
\* at once for the same session.
C1_SingleFlight ==
    \A q1, q2 \in requests : q1.conv = q2.conv => q1 = q2

\* C2: the recognition engine is never started while a playback utterance
\* is active (from speak until its ended/error notification).
C2_NoCaptureDuringPlayback ==
    [][RecognitionStarted => ~PlaybackActive]_vars

\* A step in which handleReset ran: confirmed in the dialog, or forced by
\* a repository error of the message call.
ResetStep ==
    \/ ConfirmReset
    \/ \E q \in requests, body \in ErrorBodies :
           IsRepositoryError(ThrownMessage(body)) /\ MessageHttpError(q, body)

\* C3: after reset() the Session identifier is absent and no capture
\* session or playback utterance remains active.
C3_ResetReleasesEverything ==
    [][ResetStep => (conversationIdRef' = NoId /\ recog' = "idle" /\ utterance' = "none")]_vars

\* C4: at the end-of-session notification a final transcript that is not
\* blank is emitted as exactly one user Turn (its text without the blanks
\* around it) and the final buffer is then empty; a final transcript that
\* is empty or only blanks appends no Turn and sends no request.
C4_EndOfSessionFlush ==
    [][RecognitionEnd =>
        IF OnlyBlanks(finalTranscriptRef)
        THEN messages' = messages /\ requests' = requests
        ELSE /\ Len(messages') = Len(messages) + 1
             /\ SubSeq(messages', 1, Len(messages)) = messages
             /\ messages'[Len(messages')].type = "user"
             /\ IsStripped(messages'[Len(messages')].text, finalTranscriptRef)
             /\ finalTranscriptRef' = <<>>
             /\ finalTranscript' = <<>>]_vars

\* C4 witness: a session whose finals were "show" and a blank has ended and
\* left the single user Turn "show" and an empty buffer.
C4_Witness ==
    /\ recog = "idle"
    /\ sessionFinals = << <<"show">>, <<Blank>> >>
    /\ messages = << UserTurn(<<"show">>) >>
    /\ finalTranscriptRef = <<>>

\* C5: within one capture session the final transcript equals all final
\* fragments in arrival order joined by a single space (and the interim
\* transcript is the latest interim result).
C5_FinalIsAllFragments ==
    recog \in {"running", "stopping"} =>
        finalTranscriptRef = JoinBySpace(sessionFinals)

\* C6: one capture session yields at most one user Turn, emitted at the
\* end-of-session notification and not at stop(), and every final result
\* delivered before that notification is contained in the emitted text.
C6_OneTurnWithEveryFinal ==
    [][/\ ToggleListeningStop => messages' = messages
       /\ RecognitionEnd =>
            /\ Len(messages') <= Len(messages) + 1
            /\ Len(messages') = Len(messages) + 1 =>
                 \A i \in 1..Len(sessionFinals) :
                     Contains(messages'[Len(messages')].text,
                              StrippedOf(sessionFinals[i]))]_vars


\* C7: when the backend call of an utterance succeeds with reply r, the
\* Turn history gained the User Turn with the utterance's text at
\* submission and gains exactly the Assistant Turn with r now, and
\* playback is invoked exactly once, with r.
C7_ReplyAppendedAndSpokenOnce ==
    [][/\ \A q \in requests' \ requests :
            /\ messages' = messages \o << [text |-> q.text, type |-> "user"] >>
            /\ q.turn = Len(messages')
            /\ q.conv = conversationIdRef /\ q.conv # NoId
       /\ \A q \in requests, r \in Replies : MessageReply(q, r) =>
            /\ q.turn <= Len(messages)
            /\ messages[q.turn] = [text |-> q.text, type |-> "user"]
            /\ messages' = messages \o << [text |-> r, type |-> "system"] >>
            /\ spoken' = spoken \o << r >>
            /\ utterance' = "pending"]_vars

\* C7 witness: "show" was submitted and answered: the history is the User
\* Turn then the Assistant Turn, and the reply was spoken once.
C7_Witness ==
    /\ Len(messages) = 2
    /\ messages[1] = UserTurn(<<"show">>)
    /\ messages[2].type = "system"
    /\ messages[2].text \in Replies
    /\ spoken = << messages[2].text >>
    /\ requests = {}

\* C8: each Assistant Turn (reply or fallback) appears after the User Turn
\* of the utterance it answers, and Turns in the history are never
\* reordered, modified or removed.
C8_AppendOnlyAnswersFollow ==
    [][/\ IsPrefix(messages, messages')
       /\ Len(messages') <= Len(messages) + 1
       /\ (Len(messages') > Len(messages) /\ messages'[Len(messages')].type = "system") =>
            \E q \in requests \ requests' :
                /\ q.turn <= Len(messages)
                /\ messages'[q.turn] = [text |-> q.text, type |-> "user"]]_vars

\* C8 witness: two utterances were submitted before either was answered,
\* and both answers follow them in the history.
C8_Witness ==
    /\ Len(messages) = 4
    /\ messages[1].type = "user"
    /\ messages[2].type = "user"
    /\ messages[3].type = "system"
    /\ messages[4].type = "system"

\* The errorData.message of the repository-invalid variant.
RepositoryInvalidBody ==
    <<"Invalid", Blank, "repository">>

\* C9: when the message call fails with an error that is not the
\* repository-invalid variant, exactly one fallback Assistant Turn is
\* appended, the error is shown, the Session identifier is unchanged and
\* playback is not invoked.
C9_FailureAppendsFallback ==
    [][\A q \in requests :
          (\/ MessageNetworkError(q)
           \/ \E body \in ErrorBodies \ {RepositoryInvalidBody} : MessageHttpError(q, body)) =>
            /\ messages' = messages \o << [text |-> FallbackText, type |-> "system"] >>
            /\ error' = ErrProcessing
            /\ conversationIdRef' = conversationIdRef
            /\ spoken' = spoken
            /\ utterance' = utterance]_vars

\* C9 witness: "show" failed with an ordinary error: the fallback Turn
\* follows it, the error is shown, the Session is kept, nothing was spoken.
C9_Witness ==
    /\ messages = << UserTurn(<<"show">>), SystemTurn(FallbackText) >>
    /\ error = ErrProcessing
    /\ conversationIdRef # NoId
    /\ spoken = <<>>

\* C10: when the message call fails with the repository-invalid variant,
\* the Session identifier is cleared and the user is sent to setup, and no
\* fallback Assistant Turn is appended.
C10_RepositoryErrorForcesReset ==
    [][\A q \in requests : MessageHttpError(q, RepositoryInvalidBody) =>
            /\ conversationIdRef' = NoId
            /\ route' = "auth"
            /\ resetDialogOpen' = FALSE
            /\ messages' = messages]_vars

\* C10 witness: the only utterance failed with the repository-invalid
\* error: the Session is gone, the route is setup, no Turn answers it.
C10_Witness ==
    /\ Len(messages) = 1
    /\ error = ErrProcessing
    /\ conversationIdRef = NoId
    /\ route = "auth"
    /\ requests = {}

\* The start-conversation call resolved without a usable Session: the
\* request that was pending is over and its catch has reported ErrStart.
StartFailedStep ==
    /\ startCall = "pending"
    /\ startCall' # "pending" \/ error' = ErrStart
    /\ conversationIdRef' \notin ConversationIds

\* C11: when the start-conversation call fails (non-OK status, a response
\* without an id, or a network error) no Session identifier is stored, the
\* user is sent to setup, and the call is not issued again.
C11_StartFailureNoSessionNoRetry ==
    [][/\ StartFailedStep =>
            /\ conversationIdRef' = NoId
            /\ route' = "auth"
            /\ error' = ErrStart
            /\ startCall' = "done"
       /\ startCall # "pending" => startCall' # "pending"]_vars

\* C11 witness: the start call has failed: no Session, the start error is
\* shown, the route is setup and no start call is pending.
C11_Witness ==
    /\ startCall = "done"
    /\ error = ErrStart
    /\ conversationIdRef = NoId
    /\ route = "auth"

\* The Session identifier is cleared in this step.
SessionCleared ==
    conversationIdRef # NoId /\ conversationIdRef' = NoId

\* The user pressed the confirming button of the open reset dialog.
UserConfirmed ==
    Rendered /\ resetDialogOpen /\ ~resetDialogOpen' /\ route' = "auth"

\* The open reset dialog is dismissed and the page stays.
DialogDismissed ==
    Rendered /\ resetDialogOpen /\ ~resetDialogOpen' /\ route' = route

\* The message call of a request fails with the repository-invalid error.
RepositoryErrorStep ==
    \E q \in requests : MessageHttpError(q, RepositoryInvalidBody)

\* C12 as stated: cancelling the reset dialog leaves the Session identifier
\* and the Turn history unchanged, and the Session is cleared on no path
\* but the user's confirmation in the dialog.
C12_ResetOnlyOnConfirmation ==
    [][/\ DialogDismissed =>
            (conversationIdRef' = conversationIdRef /\ messages' = messages)
       /\ SessionCleared => UserConfirmed]_vars

\* C12 amended: cancelling the reset dialog leaves the Session identifier
\* and the Turn history unchanged, and the Session is cleared only by the
\* user's confirmation in the dialog or by the reset that a
\* repository-invalid failure of the message call forces.
C12_ResetOnConfirmationOrRepositoryError ==
    [][/\ DialogDismissed =>
            (conversationIdRef' = conversationIdRef /\ messages' = messages)
       /\ SessionCleared => (UserConfirmed \/ RepositoryErrorStep)]_vars

\* C12 witness: a Session with one answered utterance was reset from the
\* dialog: no error is shown, the Session is gone, the history is kept.
C12_Witness ==
    /\ startCall = "done"
    /\ conversationIdRef = NoId
    /\ error = NoError
    /\ route = "auth"
    /\ ~resetDialogOpen
    /\ Len(messages) = 2

\* ------------------------------------------------- claims about VoiceChat
\* The peer connection reports state st for the first time since it was
\* created or last reported another state.
StateReported(st) ==
    peerConnectionRef = "open" /\ reportedState # st /\ reportedState' = st

\* C13: when the peer connection reports disconnected, failed or closed,
\* the handler of that one event stops every sender track, closes and
\* releases the peer connection and leaves the component neither
\* recording nor connected.
C13_TeardownOnConnectionLoss ==
    [][\A st \in {"disconnected", "failed", "closed"} : StateReported(st) =>
            /\ stream' = "stopped"
            /\ peerConnectionRef' = "null"
            /\ connectionState' = "closed"
            /\ ~isRecording'
            /\ ~isConnected']_vars

\* C13 witness: a connected call reported disconnected and is torn down.
C13_Witness ==
    /\ reportedState = "disconnected"
    /\ peerConnectionRef = "null"
    /\ connectionState = "closed"
    /\ stream = "stopped"
    /\ ~isRecording
    /\ ~isConnected

\* s has no peer connection, audio context or source node and is neither
\* recording nor muted.
Released(s) ==
    /\ s.peerConnectionRef = "null"
    /\ s.audioContextRef = "null"
    /\ s.sourceInputRef = "null"
    /\ s.sourceOutputRef = "null"
    /\ s.isRecording = FALSE
    /\ s.isMuted = FALSE

\* C14: from every state stopWebRTC leaves no peer connection, audio
\* context or source node and clears isRecording and isMuted, and a
\* second call right after it changes nothing.
C14_CloseIdempotent ==
    LET once  == StopWebRTC(VoiceState)
        twice == StopWebRTC(once)
    IN  Released(once) /\ twice = once

\* C14 witness: a connected call was closed by the button or the
\* unmount, and nothing of it is left.
C14_Witness ==
    /\ reportedState = "connected"
    /\ isConnected
    /\ Released(VoiceState)
    /\ stream = "stopped"
    /\ connectionState = "closed"

\* setupWebRTC returns in this step without having set isRecording, in
\* the run that acquired the stream.
OpenFailedAfterAcquire ==
    /\ phase # "idle"
    /\ phase' = "idle"
    /\ ~isRecording'
    /\ webrtcIdRef' = nOpens

\* C15: if setupWebRTC fails at a step after the stream was acquired,
\* then when it returns every acquired track is stopped, the peer
\* connection is closed and the audio graph is released.
C15_FailedOpenReleasesEverything ==
    [][OpenFailedAfterAcquire =>
            /\ stream' = "stopped"
            /\ peerConnectionRef' = "null"
            /\ audioContextRef' = "null"
            /\ sourceInputRef' = "null"
            /\ sourceOutputRef' = "null"]_vars

\* The transport connection is active.
TransportConnected ==
    peerConnectionRef = "open" /\ connectionState = "connected"

\* C16: a sampling tick is scheduled only while isRecording holds or the
\* transport connection is active.
C16_SamplingOnlyWhileActive ==
    SamplingScheduled => (isRecording \/ TransportConnected)

\* C17: no candidate of the current call is posted before the answer to
\* its offer has been received (it waits in a queue), and every candidate
\* discovered is delivered to the signaling endpoint or still on its way.
C17_NoCandidateLost ==
    /\ \A r \in iceRequests :
           ~(r.webrtc_id = nOpens /\ phase = "signal")
    /\ \A c \in 1..nCandidates :
           \E r \in iceRequests \cup iceDelivered : r.candidate = c

\* C18: a data channel message of type 'error', and a failure while
\* handling a data channel message, set the error shown and leave the peer
\* connection, the tracks and isRecording as they were.
C18_ChannelErrorKeepsTransport ==
    [][(\/ HandleDataChannelMessage("error")
        \/ HandleDataChannelMessage("malformed")
        \/ \E q \in inputRequests, detail \in Details : InputHookNotOk(q, detail)
        \/ \E q \in inputRequests : InputHookRejected(q)) =>
            /\ vcError' # NoError
            /\ HandleDataChannelMessage("error") => vcError' = ServerErrorMessage
            /\ peerConnectionRef' = peerConnectionRef
            /\ connectionState' = connectionState
            /\ stream' = stream
            /\ audioContextRef' = audioContextRef
            /\ isRecording' = isRecording]_vars

\* C18 witness: a connected, recording call shows the error of an 'error'
\* message.
C18_Witness ==
    /\ vcError = ServerErrorMessage
    /\ TransportConnected
    /\ stream = "live"
    /\ isRecording

\* C19: each data channel message asking for input ('send_input') adds
\* exactly one input_hook request, carrying the current call identifier,
\* the credential and the selected voice, and raises the listening
\* indicator; when that request resolves, with success or with failure,
\* the indicator is lowered.
C19_OneInputRequestPerMessage ==
    [][/\ HandleDataChannelMessage("send_input") =>
            /\ vcIsListening'
            /\ \E q \in inputRequests' \ inputRequests :
                   /\ inputRequests' = inputRequests \cup {q}
                   /\ q.webrtc_id = nOpens
                   /\ q.api_key = apiKey
                   /\ q.voice_name = selectedVoice
       /\ (\E kind \in MessageKinds \ {"send_input"} : HandleDataChannelMessage(kind)) =>
            inputRequests' = inputRequests
       /\ \A q \in inputRequests :
            (\/ InputHookOk(q)
             \/ \E detail \in Details : InputHookNotOk(q, detail)
             \/ InputHookRejected(q)) =>
                 (~vcIsListening' /\ inputRequests' = inputRequests \ {q})]_vars

\* C19 witness: the request of a 'send_input' message was refused by the
\* backend: no request is left and the indicator is down.
C19_Witness ==
    /\ nChannelMessages > 0
    /\ vcError = ErrSendInput
    /\ inputRequests = {}
    /\ ~vcIsListening

\* setupWebRTC returns in this step without having set isRecording.
OpenFailed ==
    phase # "idle" /\ phase' = "idle" /\ ~isRecording'

\* The user starts setupWebRTC from the main button in this step.
UserOpens ==
    ButtonEnabled /\ ~isRecording /\ phase = "idle" /\ phase' = "media"

\* C20: when setupWebRTC fails the error is shown and the component ends
\* with no peer connection, not recording and not loading; from then on
\* no media, signaling, candidate or input request is issued until the
\* user starts setupWebRTC again.
C20_FailedOpenReportedNotRetried ==
    [][/\ OpenFailed =>
            /\ vcError' # NoError
            /\ peerConnectionRef' = "null"
            /\ ~isRecording'
            /\ ~vcIsLoading'
       /\ (phase = "idle" /\ peerConnectionRef = "null") =>
            /\ phase' = "idle" \/ UserOpens
            /\ iceRequests' \subseteq iceRequests
            /\ inputRequests' \subseteq inputRequests]_vars

\* C20 witness: the signaling endpoint refused the offer: its error is
\* shown, the tracks are stopped, nothing is open, recording or loading.
C20_Witness ==
    /\ vcError = ErrEstablish
    /\ phase = "idle"
    /\ peerConnectionRef = "null"
    /\ stream = "stopped"
    /\ ~isRecording
    /\ ~vcIsLoading

\* ------------------------------------ claims about the conversation page
\* The engine reports an error of its running capture session.
RecognitionFailed ==
    recog \in {"running", "stopping"} /\ recog' = "failed"

\* C21: a recognition error lowers isListening and leaves the Session
\* identifier, the Turn history and the message requests as they were;
\* the engine then ends, and a start requested after that starts a new
\* capture session.
C21_RecognitionErrorStopsCapture ==
    [][/\ RecognitionFailed =>
            /\ ~isListening'
            /\ conversationIdRef' = conversationIdRef
            /\ messages' = messages
            /\ requests' = requests
       /\ (recog = "failed" /\ recog' # recog) => recog' = "idle"
       /\ (MicrophoneGranted(FALSE) /\ recog = "idle" /\ speechRecognition) =>
            (recog' = "running" /\ isListening')]_vars

\* C21 witness: the engine failed in a session with an answered utterance
\* in the history: capture is stopped, the Session and the history are
\* there, and the user has pressed the microphone button again.
C21_Witness ==
    /\ recog = "failed"
    /\ ~isListening
    /\ conversationIdRef # NoId
    /\ Len(messages) = 2
    /\ micPending[FALSE] > 0

\* speakText is invoked: an utterance is handed to the synthesizer.
SpeakInvoked ==
    spoken' # spoken

\* C22: an utterance handed to speak carries the rate, pitch and volume
\* that voiceSettings holds when speak is invoked.
C22_SpokenWithCurrentSettings ==
    [][SpeakInvoked =>
          /\ utteranceParams'.rate = voiceSettings.rate
          /\ utteranceParams'.pitch = voiceSettings.pitch
          /\ utteranceParams'.volume = voiceSettings.volume]_vars

\* An utterance is in the synthesizer, waiting to start or playing.
UtteranceActive ==
    utterance \in {"pending", "speaking"}

\* C23: speak hands over exactly one utterance, which becomes the only one
\* in the synthesizer; an utterance that was waiting or playing when speak
\* was invoked is cancelled in the same step, not kept behind the new one.
C23_SpeakCancelsActiveUtterance ==
    [][SpeakInvoked =>
          /\ Len(spoken') = Len(spoken) + 1
          /\ utterance' = "pending"
          /\ cancelled' = cancelled + (IF UtteranceActive THEN 1 ELSE 0)]_vars

C23_Witness ==
    /\ Len(spoken) = 2
    /\ cancelled = 1
    /\ utterance = "pending"

\* The configuration was absent when the page started its Session: the
\* start-conversation request was never issued.
AbsentAtStart ==
    startCall = "none"

\* handleUserInput appends a User Turn.
UserTurnAppended ==
    /\ Len(messages') = Len(messages) + 1
    /\ messages'[Len(messages')].type = "user"

\* C24: a page started without the configuration has issued no request,
\* has no Session and is on the setup route, and the protected route shows
\* the redirect for it; while the configuration is absent no step issues
\* a start-conversation or message request, an utterance handled then
\* redirects to setup, and whenever the protected route changes what it
\* renders, it renders its content only with a configuration present.
C24_NoConfigurationNoRequests ==
    /\ [](AbsentAtStart =>
            /\ conversationIdRef = NoId
            /\ requests = {}
            /\ route = "auth"
            /\ protectedView = "navigate")
    /\ [][/\ (repoConfig = "absent") =>
               /\ requests' \subseteq requests
               /\ (startCall' = "pending") => (startCall = "pending")
               /\ UserTurnAppended => (route' = "auth")
          /\ (protectedView' # protectedView) =>
               ((protectedView' = "children") = (repoConfig # "absent"))]_vars

C24_Witness ==
    /\ repoConfig = "absent"
    /\ conversationIdRef # NoId
    /\ Len(messages) = 1
    /\ messages[1].type = "user"
    /\ requests = {}
    /\ route = "auth"
    /\ protectedView = "navigate"

\* --------------------------------------- claims about the voice transport
\* Microphone streams with a running track that the controller acquired.
LiveStreams ==
    strayStreams + (IF stream = "live" THEN 1 ELSE 0)

\* Peer connections the controller created and has not closed.
OpenPeerConnections ==
    strayPeers + (IF peerConnectionRef = "open" THEN 1 ELSE 0)

\* C25: at no time are there two open peer connections or two live
\* microphone streams of one controller.
C25_OnePeerConnectionOneStream ==
    /\ OpenPeerConnections <= 1
    /\ LiveStreams <= 1

\* ------------------------------------------- claims about the voice list
\* The platform's voice list was loaded or changed: loadVoices ran.
VoicesLoaded ==
    platformVoices' # platformVoices

\* A voice is selected.
VoiceSelected ==
    selectedVoiceRef # "null"

\* C26: when the voice list is loaded or changes, the curated list holds
\* at most four voices; a voice selected before stays selected, and with
\* none selected the first voice of a non-empty curated list becomes the
\* selected one.
C26_VoiceListKeepsSelection ==
    [][VoicesLoaded =>
          /\ Len(availableVoices') <= 4
          /\ VoiceSelected =>
                /\ selectedVoiceRef' = selectedVoiceRef
                /\ selectedVoiceName' = selectedVoiceName
          /\ (~VoiceSelected /\ availableVoices' # <<>>) =>
                /\ selectedVoiceRef' = availableVoices'[1].name
                /\ selectedVoiceName' = availableVoices'[1].name
          /\ (~VoiceSelected /\ availableVoices' = <<>>) =>
                ~VoiceSelected']_vars

\* The user chose Samantha from a curated list of four, and the list then
\* changed to one whose first voice is another.
C26_Witness ==
    /\ selectedVoiceRef = "Samantha"
    /\ Len(availableVoices) = 1
    /\ availableVoices[1].name = "Daniel"

\* ------------------------------------ claims about answers and playback
\* The User Turn at index i has an Assistant Turn after it, or its message
\* call is still outstanding.
AnsweredOrOutstanding(i) ==
    \/ \E j \in (i + 1)..Len(messages) : messages[j].type = "system"
    \/ \E q \in requests : q.turn = i

\* C27: while the page has not been reset or redirected to setup, every
\* User Turn of the history has an Assistant Turn after it or a message
\* call outstanding that will bring one.
C27_EveryUserTurnAnswered ==
    \/ route = "auth"
    \/ \A i \in 1..Len(messages) :
          messages[i].type = "user" => AnsweredOrOutstanding(i)

\* The message call q is outstanding and the Session it was sent for has
\* been cleared by a reset since.
OutstandingAcrossReset(q) ==
    /\ q \in requests
    /\ q.conv # NoId
    /\ conversationIdRef = NoId

\* C28: the step in which a message call outstanding across a reset is
\* answered appends no Turn and hands no utterance to the synthesizer.
C28_ResponseAfterResetDropped ==
    [][\A q \in requests :
          (OutstandingAcrossReset(q) /\ q \notin requests') =>
              /\ messages' = messages
              /\ spoken' = spoken
              /\ utterance' = utterance]_vars

\* ---------------------------------- claims about closing during open()
\* setupWebRTC returns in this step.
OpenReturns ==
    phase # "idle" /\ phase' = "idle"

\* The transport was closed while setupWebRTC was suspended on the
\* microphone acquisition or on the offer request.
ClosedWhileSuspended ==
    closedDuring \in {"media", "signal"}

\* C29: when the transport was closed while open() was suspended on the
\* microphone acquisition or on the offer request, open() returns with no
\* peer connection, no running audio track, no audio context and
\* isRecording false.
C29_ClosedDuringOpenLeavesNothing ==
    [][(ClosedWhileSuspended /\ OpenReturns) =>
          /\ peerConnectionRef' = "null"
          /\ stream' # "live"
          /\ strayStreams' = 0
          /\ audioContextRef' = "null"
          /\ ~isRecording']_vars

\* ------------------------------------------ claims about the speaking flag
\* C30: isSpeaking is raised whenever an utterance is playing, and it is
\* lowered when no utterance is in the synthesizer and no notification of
\* a cancelled one is still to come.
C30_SpeakingFlagFollowsPlayback ==
    /\ (utterance = "speaking") => isSpeaking
    /\ (utterance = "none" /\ cancelled = 0) => ~isSpeaking

====
